---------------------------- MODULE Spec2Model ----------------------------
(***************************************************************************)
(* Model of the L3ARCH archiver: the Huffman codec, the algorithm          *)
(* selector, the archive writers (format versions 2 and 3) and the         *)
(* universal decoder, as found in src/lab4.                                *)
(*                                                                         *)
(* Bytes are integers 0..255, byte strings are sequences of bytes, bit     *)
(* strings are sequences of 0/1.  A Python exception is modelled as a       *)
(* result record [ok |-> FALSE, err |-> <exception name>].                  *)
(***************************************************************************)
EXTENDS Integers, Sequences, FiniteSets, TLC

(***************************************************************************)
(* Bounds of the model.                                                    *)
(***************************************************************************)
MaxLen == 3
BaseRun == 17
MaxEntries == 2

(***************************************************************************)
(* Generic helpers.                                                        *)
(***************************************************************************)
Ok(v) == [ok |-> TRUE, val |-> v, err |-> ""]
Err(e) == [ok |-> FALSE, val |-> <<>>, err |-> e]

RECURSIVE Rep(_, _)
Rep(x, n) == IF n <= 0 THEN <<>> ELSE <<x>> \o Rep(x, n - 1)

RECURSIVE Pow2(_)
Pow2(n) == IF n = 0 THEN 1 ELSE 2 * Pow2(n - 1)

\* s[from:] of Python, 0-based
Drop(s, k) == IF k >= Len(s) THEN <<>> ELSE SubSeq(s, k + 1, Len(s))
\* s[:k] of Python for k >= 0
Take(s, k) == IF k >= Len(s) THEN s ELSE SubSeq(s, 1, k)

RECURSIVE Concat(_)
Concat(ss) == IF ss = <<>> THEN <<>> ELSE Head(ss) \o Concat(Tail(ss))

Min(a, b) == IF a < b THEN a ELSE b

(***************************************************************************)
(* struct.pack / struct.unpack, little-endian.  Values of the model stay   *)
(* far below 2^24; a field whose high bytes are set is read as Huge, which *)
(* is larger than every length of the model.                               *)
(***************************************************************************)
Huge == Pow2(24)

PackU8(n) == <<n % 256>>
PackU16(n) == <<n % 256, (n \div 256) % 256>>
PackU32(n) == <<n % 256, (n \div 256) % 256, (n \div 65536) % 256, 0>>
PackU64(n) == PackU32(n) \o <<0, 0, 0, 0>>

RECURSIVE AnySet(_, _)
AnySet(b, from) ==
    IF from > Len(b) THEN FALSE ELSE b[from] # 0 \/ AnySet(b, from + 1)

\* struct.unpack('<...', b) of a byte string of exactly the field's width
UnpackLE(b) ==
    IF AnySet(b, 4) THEN Huge
    ELSE (IF Len(b) >= 1 THEN b[1] ELSE 0)
       + (IF Len(b) >= 2 THEN b[2] * 256 ELSE 0)
       + (IF Len(b) >= 3 THEN b[3] * 65536 ELSE 0)

\* struct.unpack_from(fmt, buf, off) for a field of w bytes: struct.error
\* when the buffer is too short
UnpackFrom(buf, off, w) ==
    IF off + w > Len(buf) THEN Err("struct.error")
    ELSE Ok(UnpackLE(SubSeq(buf, off + 1, off + w)))

(***************************************************************************)
(* binascii.crc32: the reflected CRC-32 (polynomial 0xEDB88320), the       *)
(* 32-bit register held as the set of its one-bits.                        *)
(***************************************************************************)
CrcPoly == {5, 8, 9, 15, 19, 20, 21, 23, 24, 26, 27, 29, 30, 31}

Xor(a, b) == (a \ b) \cup (b \ a)
BitsOf(n, w) == {i \in 0..(w - 1) : (n \div Pow2(i)) % 2 = 1}
ShiftR(r) == {i - 1 : i \in r \ {0}}

\* one step of the bit loop: shift right, xor the polynomial on a carry
CrcStep(r) == IF 0 \in r THEN Xor(ShiftR(r), CrcPoly) ELSE ShiftR(r)

\* one byte: xor it into the low bits, then eight steps
CrcByte(r, b) ==
    CrcStep(CrcStep(CrcStep(CrcStep(CrcStep(CrcStep(CrcStep(CrcStep(
        Xor(r, BitsOf(b, 8))))))))))

\* the register after all bytes (r2 = {} only asks for r2's value before
\* the next byte is taken)
RECURSIVE CrcRun(_, _)
CrcRun(r, data) ==
    IF data = <<>> THEN r
    ELSE LET r2 == CrcByte(r, Head(data))
         IN IF r2 = {} THEN CrcRun({}, Tail(data)) ELSE CrcRun(r2, Tail(data))

RECURSIVE SumBits(_, _)
SumBits(r, lo) ==
    IF r = {} THEN 0
    ELSE LET i == CHOOSE x \in r : TRUE
         IN Pow2(i - lo) + SumBits(r \ {i}, lo)

\* crc32(data) & 0xffffffff, as the set of one-bits
crc32(data) == (0..31) \ CrcRun(0..31, data)

\* struct.pack('<I', crc): four bytes, least significant first
PackCrc(r) ==
    [k \in 1..4 |-> SumBits({i \in r : i \div 8 = k - 1}, 8 * (k - 1))]

\* struct.unpack('<I', b)[0] of four bytes, as the set of one-bits
UnpackCrc(b) ==
    UNION {{8 * (k - 1) + i : i \in BitsOf(b[k], 8)} : k \in 1..4}

(***************************************************************************)
(* Huffman tree nodes (class Node / class HNode).  symbol = NoSym is       *)
(* Python's None; a child is <<>> (None) or <<node>>.                      *)
(***************************************************************************)
NoSym == -1

Node(freq, symbol, left, right) ==
    [freq |-> freq, symbol |-> symbol, left |-> left, right |-> right]

\* (symbol or 0)
SymOr0(sym) == IF sym = NoSym \/ sym = 0 THEN 0 ELSE sym

\* Node.__lt__ and HNode.__lt__ (the two are the same text)
Lt(a, b) ==
    IF a.freq = b.freq THEN SymOr0(a.symbol) < SymOr0(b.symbol)
    ELSE a.freq < b.freq

(***************************************************************************)
(* heapq on a list, positions 0-based as in Python.                        *)
(***************************************************************************)
At(heap, i) == heap[i + 1]
Put(heap, i, v) == [heap EXCEPT ![i + 1] = v]

RECURSIVE SiftDownLoop(_, _, _, _)
SiftDownLoop(heap, startpos, pos, newitem) ==
    IF pos > startpos
    THEN LET parentpos == (pos - 1) \div 2
             parent == At(heap, parentpos)
         IN IF Lt(newitem, parent)
            THEN SiftDownLoop(Put(heap, pos, parent), startpos, parentpos, newitem)
            ELSE Put(heap, pos, newitem)
    ELSE Put(heap, pos, newitem)

SiftDown(heap, startpos, pos) == SiftDownLoop(heap, startpos, pos, At(heap, pos))

RECURSIVE SiftUpLoop(_, _, _, _, _)
SiftUpLoop(heap, startpos, pos, childpos, newitem) ==
    IF childpos < Len(heap)
    THEN LET rightpos == childpos + 1
             c == IF rightpos < Len(heap)
                     /\ ~Lt(At(heap, childpos), At(heap, rightpos))
                  THEN rightpos ELSE childpos
         IN SiftUpLoop(Put(heap, pos, At(heap, c)), startpos, c, 2 * c + 1, newitem)
    ELSE SiftDown(Put(heap, pos, newitem), startpos, pos)

SiftUp(heap, pos) == SiftUpLoop(heap, pos, pos, 2 * pos + 1, At(heap, pos))

RECURSIVE HeapifyFrom(_, _)
HeapifyFrom(x, i) == IF i < 0 THEN x ELSE HeapifyFrom(SiftUp(x, i), i - 1)

heapify(x) == HeapifyFrom(x, (Len(x) \div 2) - 1)

\* heappop: the popped item and the heap left
heappop(heap) ==
    LET lastelt == heap[Len(heap)]
        rest == SubSeq(heap, 1, Len(heap) - 1)
    IN IF rest # <<>>
       THEN [item |-> rest[1], heap |-> SiftUp(Put(rest, 0, lastelt), 0)]
       ELSE [item |-> lastelt, heap |-> rest]

heappush(heap, item) == SiftDown(Append(heap, item), 0, Len(heap))

(***************************************************************************)
(* Frequency tables: a Python dict {symbol: count} in insertion order, as  *)
(* a sequence of [sym, fr] records with pairwise distinct sym.             *)
(***************************************************************************)
HasSym(freqs, sym) == \E i \in 1..Len(freqs) : freqs[i].sym = sym

\* freqs[sym] = fr
DictSet(freqs, sym, fr) ==
    IF HasSym(freqs, sym)
    THEN [i \in 1..Len(freqs) |->
            IF freqs[i].sym = sym THEN [sym |-> sym, fr |-> fr] ELSE freqs[i]]
    ELSE Append(freqs, [sym |-> sym, fr |-> fr])

DictGet(freqs, sym) ==
    (CHOOSE i \in 1..Len(freqs) : freqs[i].sym = sym)

RECURSIVE CounterFrom(_, _)
CounterFrom(freqs, data) ==
    IF data = <<>> THEN freqs
    ELSE LET b == Head(data)
             n == IF HasSym(freqs, b) THEN freqs[DictGet(freqs, b)].fr ELSE 0
         IN CounterFrom(DictSet(freqs, b, n + 1), Tail(data))

\* collections.Counter(data)
Counter(data) == CounterFrom(<<>>, data)

Leaves(freqs) ==
    [i \in 1..Len(freqs) |-> Node(freqs[i].fr, freqs[i].sym, <<>>, <<>>)]

\* a merge that gives the new node the frequency of its left child only
PushMergedLight(a, pb) ==
    heappush(pb.heap, Node(a.freq, NoSym, <<a>>, <<pb.item>>))

\* new = Node(a.freq + b.freq, None, a, b); heappush(heap, new)
PushMerged(a, pb) ==
    heappush(pb.heap, Node(a.freq + pb.item.freq, NoSym, <<a>>, <<pb.item>>))

\* a = heappop(heap); b = heappop(heap); push the merged node
MergeTwo(pa) == PushMerged(pa.item, heappop(pa.heap))

RECURSIVE MergeLoop(_)
MergeLoop(heap) ==
    IF Len(heap) > 1 THEN MergeLoop(MergeTwo(heappop(heap))) ELSE heap

\* return heap[0]: IndexError on an empty heap
HeapTop(heap) == IF heap = <<>> THEN Err("IndexError") ELSE Ok(heap[1])

TreeOfHeap(heap) ==
    IF Len(heap) = 1
    THEN Ok(Node(heap[1].freq, NoSym, <<heap[1]>>, <<>>))
    ELSE HeapTop(MergeLoop(heap))

\* archiver_huffman.build_huffman_tree: heap[0] of an empty heap raises
build_huffman_tree(freqs) == TreeOfHeap(heapify(Leaves(freqs)))

UdTreeOfHeap(heap) ==
    IF Len(heap) = 0 THEN <<>>
    ELSE IF Len(heap) = 1
    THEN <<Node(heap[1].freq, NoSym, <<heap[1]>>, <<>>)>>
    ELSE <<MergeLoop(heap)[1]>>

\* universal_decoder.build_huffman_tree: None (<<>>) for an empty table
ud_build_huffman_tree(freqs) == UdTreeOfHeap(heapify(Leaves(freqs)))

\* the codebook of an inner node from those of its children; the right
\* subtree is walked after the left one
JoinCodes(l, r) ==
    IF ~l.ok THEN l
    ELSE IF ~r.ok THEN r
    ELSE Ok([sym \in DOMAIN l.val \cup DOMAIN r.val |->
                IF sym \in DOMAIN r.val THEN r.val[sym] ELSE l.val[sym]])

\* build_codes(node, prefix): the codebook as a function symbol -> bits;
\* node.symbol of None raises AttributeError
RECURSIVE build_codes(_, _)
\* a walk that does not extend the prefix on the way to the right child
BuildCodesRightBare(node, prefix) ==
    IF node = <<>> THEN Err("AttributeError")
    ELSE IF node[1].symbol # NoSym
    THEN Ok(node[1].symbol :> (IF prefix = <<>> THEN <<0>> ELSE prefix))
    ELSE JoinCodes(build_codes(node[1].left, prefix \o <<0>>),
                   build_codes(node[1].right, prefix))

build_codes(node, prefix) ==
    IF node = <<>> THEN Err("AttributeError")
    ELSE IF node[1].symbol # NoSym
    THEN Ok(node[1].symbol :> (IF prefix = <<>> THEN <<0>> ELSE prefix))
    ELSE JoinCodes(build_codes(node[1].left, prefix \o <<0>>),
                   build_codes(node[1].right, prefix \o <<1>>))

(***************************************************************************)
(* Bit strings and bytes.                                                  *)
(***************************************************************************)
\* one byte as 8 bits, most significant first
ByteBits(b) == [k \in 1..8 |-> (b \div Pow2(8 - k)) % 2]

RECURSIVE BitsValue(_)
BitsValue(bits) ==
    IF bits = <<>> THEN 0
    ELSE 2 * BitsValue(SubSeq(bits, 1, Len(bits) - 1)) + bits[Len(bits)]

\* int(bits, 2).to_bytes(len(bits) // 8, "big") for len(bits) a multiple of 8
BitsToBytes(bits) ==
    [k \in 1..(Len(bits) \div 8) |-> BitsValue(SubSeq(bits, 8 * k - 7, 8 * k))]

\* bin(int.from_bytes(encoded, "big"))[2:].zfill(len(encoded) * 8):
\* bin(0) is "0b0", so no bytes give the one-character string "0"
BitStr(encoded) ==
    IF encoded = <<>> THEN <<0>>
    ELSE Concat([k \in 1..Len(encoded) |-> ByteBits(encoded[k])])

\* if padding: bitstr = bitstr[:-padding]
StripPadding(bitstr, padding) ==
    IF padding = 0 THEN bitstr
    ELSE IF padding >= Len(bitstr) THEN <<>>
    ELSE SubSeq(bitstr, 1, Len(bitstr) - padding)

(***************************************************************************)
(* archiver_huffman.huffman_encode                                         *)
(***************************************************************************)
ServiceOf(padding, freqs) ==
    PackU16(padding) \o PackU16(Len(freqs))
    \o Concat([i \in 1..Len(freqs) |-> PackU8(freqs[i].sym) \o PackU32(freqs[i].fr)])

\* padding = (8 - len(bits) % 8) % 8
PaddingOf(bits) == (8 - (Len(bits) % 8)) % 8

\* bits += "0" * padding; encoded = int(bits, 2).to_bytes(...); service
EncodeBits(freqs, bits) ==
    IF bits = <<>> THEN Err("ValueError")
    ELSE Ok([encoded |-> BitsToBytes(bits \o Rep(0, PaddingOf(bits))),
             service |-> ServiceOf(PaddingOf(bits), freqs)])

\* bits = "".join(codebook[b] for b in data)
EncodeCodes(data, freqs, codebook) ==
    IF ~codebook.ok THEN codebook
    ELSE EncodeBits(freqs, Concat([i \in 1..Len(data) |-> codebook.val[data[i]]]))

EncodeTree(data, freqs, root) ==
    IF ~root.ok THEN root
    ELSE EncodeCodes(data, freqs, build_codes(<<root.val>>, <<>>))

EncodeFreqs(data, freqs) == EncodeTree(data, freqs, build_huffman_tree(freqs))

huffman_encode(data) == EncodeFreqs(data, Counter(data))

(***************************************************************************)
(* Reading the service blob: padding, symbol count, (symbol, count) pairs  *)
(***************************************************************************)
RECURSIVE ReadFreqs(_, _, _, _)
ReadFreqs(service, offset, left, freqs) ==
    IF left = 0 THEN Ok(freqs)
    ELSE IF offset + 5 > Len(service) THEN Err("struct.error")
    ELSE ReadFreqs(service, offset + 5, left - 1,
                   DictSet(freqs, service[offset + 1],
                           UnpackLE(SubSeq(service, offset + 2, offset + 5))))

\* the walk of the tree along the bits; equal is the codec's stop test
\* (len(out) == orig_size in huffman_decode, >= in huffman_decode_bytes)
RECURSIVE Walk(_, _, _, _, _, _)
Walk(root, node, bits, out, orig_size, exact) ==
    IF bits = <<>> THEN Ok(out)
    ELSE LET next == IF Head(bits) = 0 THEN node.left ELSE node.right
         IN IF next = <<>> THEN Err("AttributeError")
            ELSE IF next[1].symbol # NoSym
            THEN LET out2 == Append(out, next[1].symbol)
                 IN IF (exact /\ Len(out2) = orig_size)
                       \/ (~exact /\ Len(out2) >= orig_size)
                    THEN Ok(out2)
                    ELSE Walk(root, root, Tail(bits), out2, orig_size, exact)
            ELSE Walk(root, next[1], Tail(bits), out, orig_size, exact)

DecodeTree(root, bits, orig_size) ==
    IF ~root.ok THEN root
    ELSE Walk(root.val, root.val, bits, <<>>, orig_size, TRUE)

DecodeFreqs(freqs, bits, orig_size) ==
    IF ~freqs.ok THEN freqs
    ELSE DecodeTree(build_huffman_tree(freqs.val), bits, orig_size)

DecodeHeader(encoded, service, orig_size, padding, num_syms) ==
    IF ~padding.ok THEN padding
    ELSE IF ~num_syms.ok THEN num_syms
    ELSE DecodeFreqs(ReadFreqs(service, 4, num_syms.val, <<>>),
                     StripPadding(BitStr(encoded), padding.val), orig_size)

\* archiver_huffman.huffman_decode
huffman_decode(encoded, service, orig_size) ==
    DecodeHeader(encoded, service, orig_size,
                 UnpackFrom(service, 0, 2), UnpackFrom(service, 2, 2))

\* return bytes(out[:orig_size])
CutOut(r, orig_size) == IF r.ok THEN Ok(Take(r.val, orig_size)) ELSE r

UdDecodeTree(root, bits, orig_size) ==
    IF root = <<>> THEN Ok(<<>>)
    ELSE CutOut(Walk(root[1], root[1], bits, <<>>, orig_size, FALSE), orig_size)

UdDecodeFreqs(freqs, bits, orig_size) ==
    IF ~freqs.ok THEN freqs
    ELSE UdDecodeTree(ud_build_huffman_tree(freqs.val), bits, orig_size)

UdDecodeHeader(encoded_bytes, service_bytes, orig_size, padding, num_syms) ==
    UdDecodeFreqs(ReadFreqs(service_bytes, 4, num_syms.val, <<>>),
                  StripPadding(BitStr(encoded_bytes), padding.val), orig_size)

\* universal_decoder.huffman_decode_bytes
huffman_decode_bytes(encoded_bytes, service_bytes, orig_size) ==
    IF Len(service_bytes) < 4 THEN Ok(<<>>)
    ELSE UdDecodeHeader(encoded_bytes, service_bytes, orig_size,
                        UnpackFrom(service_bytes, 0, 2),
                        UnpackFrom(service_bytes, 2, 2))

(***************************************************************************)
(* intelligent_coder.intelligent_encode_file.  ForceNone is the argument   *)
(* force_algorithm = None (the adaptive mode).                             *)
(***************************************************************************)
ForceNone == -1

Encoded(code, payload, meta, size) ==
    [algorithm_code |-> code, encoded_data |-> payload,
     meta_info |-> meta, final_size |-> size]

Crc4(enable_crc) == IF enable_crc THEN 4 ELSE 0

\* the adaptive test of the selector: store when Huffman does not gain
StoreIsBetter(n_compressed_total, n_original) == n_compressed_total >= n_original

\* the body of intelligent_encode_file, given h = huffman_encode(data) and
\* crc_bytes = struct.pack('<I', crc32(data) & 0xffffffff)
EncodeFileWith(data, force_algorithm, enable_crc, h, crc_bytes) ==
    IF force_algorithm # ForceNone
    THEN IF force_algorithm = 0
         THEN Ok(Encoded(0, data, <<>>, Len(data)))
         ELSE IF force_algorithm = 3
         THEN IF ~h.ok THEN h
              ELSE Ok(Encoded(3, h.val.encoded,
                              h.val.service \o (IF enable_crc THEN crc_bytes ELSE <<>>),
                              Len(h.val.encoded) + Len(h.val.service)
                              + Crc4(enable_crc)))
         ELSE Err("TypeError")
    ELSE IF ~h.ok THEN h
         ELSE IF StoreIsBetter(Len(h.val.encoded) + Len(h.val.service)
                               + Crc4(enable_crc), Len(data))
         THEN Ok(Encoded(0, data, <<>>, Len(data)))
         ELSE Ok(Encoded(3, h.val.encoded,
                         h.val.service \o (IF enable_crc THEN crc_bytes ELSE <<>>),
                         Len(h.val.encoded) + Len(h.val.service)
                         + Crc4(enable_crc) + Crc4(enable_crc)))

intelligent_encode_file(data, force_algorithm, enable_crc) ==
    EncodeFileWith(data, force_algorithm, enable_crc,
                   huffman_encode(data), PackCrc(crc32(data)))

(***************************************************************************)
(* Format constants (archiver_huffman.py, universal_decoder.py).           *)
(***************************************************************************)
SIGNATURE == <<76, 51, 65, 82, 67, 72, 48, 52>>
SIGNATURE_PREFIX == <<76, 51, 65, 82, 67, 72>>
VERSION == 2
VERSION_V3 == 3
ALG_NOCTX_NONE == 0
ALG_NOCTX_ZLIB == 2
ALG_NOCTX_HUFFMAN == 3
ALG_PROT_NONE == 0
ALG_PROT_CRC32 == 11
RESERVED == 0
ENTRY_FILE == 1
FIXED_HEADER_LEN == 8 + 2 + 1 + 1 + 1 + 1 + 8 + 4

(***************************************************************************)
(* Paths.  A path string is a byte string; a location of the file system   *)
(* is the sequence of its components from the root.                        *)
(***************************************************************************)
Slash == 47
Dot == 46

RECURSIVE SplitFrom(_, _, _)
SplitFrom(str, cur, acc) ==
    IF str = <<>> THEN (IF cur = <<>> THEN acc ELSE Append(acc, cur))
    ELSE IF Head(str) = Slash
    THEN SplitFrom(Tail(str), <<>>, IF cur = <<>> THEN acc ELSE Append(acc, cur))
    ELSE SplitFrom(Tail(str), Append(cur, Head(str)), acc)

\* Path(str).parts without the anchor: empty and "." components are dropped
Parts(str) == SelectSeq(SplitFrom(str, <<>>, <<>>), LAMBDA c : c # <<Dot>>)

IsAbsolute(str) == str # <<>> /\ str[1] = Slash

\* Path(str).name
PathName(str) ==
    IF Parts(str) = <<>> THEN <<>> ELSE Parts(str)[Len(Parts(str))]

\* the location the operating system resolves a component list to
RECURSIVE ResolveFrom(_, _)
ResolveFrom(parts, acc) ==
    IF parts = <<>> THEN acc
    ELSE IF Head(parts) = <<Dot, Dot>>
    THEN ResolveFrom(Tail(parts),
                     IF acc = <<>> THEN acc ELSE SubSeq(acc, 1, Len(acc) - 1))
    ELSE ResolveFrom(Tail(parts), Append(acc, Head(parts)))

Resolve(parts) == ResolveFrom(parts, <<>>)

\* outdir / Path(relpath): an absolute relpath replaces outdir
JoinPath(outdir, relpath) ==
    IF IsAbsolute(relpath) THEN Parts(relpath) ELSE outdir \o Parts(relpath)

\* target = outdir / Path(relpath), as the location open() reaches
TargetOf(outdir, relpath) == Resolve(JoinPath(outdir, relpath))

\* target.parent, as the location mkdir() reaches
ParentOf(outdir, relpath) ==
    LET joined == JoinPath(outdir, relpath)
    IN IF joined = <<>> THEN <<>> ELSE Resolve(SubSeq(joined, 1, Len(joined) - 1))

Prefixes(loc) == {SubSeq(loc, 1, k) : k \in 0..Len(loc)}
IsUnder(root, loc) == Len(loc) >= Len(root) /\ SubSeq(loc, 1, Len(root)) = root

(***************************************************************************)
(* The archive writers.                                                    *)
(***************************************************************************)
TocEntry(type, relpath, orig_size, stored, service) ==
    PackU8(type) \o PackU16(Len(relpath)) \o relpath \o PackU64(orig_size)
    \o PackU64(Len(stored)) \o PackU32(Len(service)) \o service

\* a writer that leaves the entry count out of the fixed length: the header
\* size it records is not where the payload starts
HeaderSizeShort(table_bytes) == (8 + 2 + 1 + 1 + 1 + 1 + 8) + Len(table_bytes)

\* header_size = FIXED_HEADER_LEN + len(table_bytes)
HeaderSize(table_bytes) == FIXED_HEADER_LEN + Len(table_bytes)

ArchiveBytes(version, alg_noctx, alg_prot, table_bytes, blocks, n) ==
    SIGNATURE \o PackU16(version) \o PackU8(0) \o PackU8(alg_noctx)
    \o PackU8(alg_prot) \o PackU8(RESERVED)
    \o PackU64(HeaderSize(table_bytes)) \o PackU32(n)
    \o table_bytes \o blocks

FirstError(encs) ==
    encs[CHOOSE i \in 1..Len(encs) :
            ~encs[i].ok /\ \A j \in 1..(i - 1) : encs[j].ok]

\* the table of entries and the payload blocks of encoded entries
\* encs[i] = Ok([relpath, orig_size, stored, service]); the first exception
\* of the encoding loop leaves no archive
Assemble(version, alg_noctx, alg_prot, encs) ==
    IF \E i \in 1..Len(encs) : ~encs[i].ok THEN FirstError(encs)
    ELSE Ok(ArchiveBytes(version, alg_noctx, alg_prot,
              Concat([i \in 1..Len(encs) |->
                        TocEntry(ENTRY_FILE, encs[i].val.relpath, encs[i].val.orig_size,
                                 encs[i].val.stored, encs[i].val.service)]),
              Concat([i \in 1..Len(encs) |-> encs[i].val.stored]),
              Len(encs)))

\* build_archive, one entry: service += struct.pack('<I', crc32(raw)) if crc
BuildEntry(ent, h, crc) ==
    IF ~h.ok THEN h
    ELSE Ok([relpath |-> ent.relpath, orig_size |-> Len(ent.data),
             stored |-> h.val.encoded,
             service |-> h.val.service
                         \o (IF crc THEN PackCrc(crc32(ent.data)) ELSE <<>>)])

\* stored, service = huffman_encode(raw) if huffman else (raw, b'')
BuildCodec(raw, huffman) ==
    IF huffman THEN huffman_encode(raw)
    ELSE Ok([encoded |-> raw, service |-> <<>>])

\* archiver_huffman.build_archive: the bytes of the archive, or the exception
build_archive(entries, huffman, crc) ==
    Assemble(VERSION,
             IF huffman THEN ALG_NOCTX_HUFFMAN ELSE ALG_NOCTX_NONE,
             IF crc THEN ALG_PROT_CRC32 ELSE ALG_PROT_NONE,
             [i \in 1..Len(entries) |->
                BuildEntry(entries[i], BuildCodec(entries[i].data, huffman), crc)])

\* create_intelligent_archive, one entry; save_archive_v3 puts the codec
\* in front of the service blob
IntelligentEntry(input, r) ==
    IF ~r.ok THEN r
    ELSE Ok([relpath |-> PathName(input.relpath), orig_size |-> Len(input.data),
             stored |-> r.val.encoded_data,
             service |-> <<r.val.algorithm_code>> \o r.val.meta_info])

\* create_intelligent_archive followed by save_archive_v3
create_intelligent_archive(input_files, force_algorithm, enable_crc) ==
    Assemble(VERSION_V3, 0,
             IF enable_crc THEN ALG_PROT_CRC32 ELSE 0,
             [i \in 1..Len(input_files) |->
                IntelligentEntry(input_files[i],
                    intelligent_encode_file(input_files[i].data,
                                            force_algorithm, enable_crc))])

(***************************************************************************)
(* Reading an archive: f.read(k) returns the bytes left when fewer than k  *)
(* remain; struct.unpack of a short read and [0] of an empty read raise.   *)
(***************************************************************************)
Rd(buf, pos, k) ==
    IF pos >= Len(buf) \/ k <= 0 THEN <<>>
    ELSE SubSeq(buf, pos + 1, Min(pos + k, Len(buf)))

HeaderError(buf) ==
    IF Take(buf, 6) # SIGNATURE_PREFIX THEN "ValueError"
    ELSE IF Len(buf) < 10 THEN "struct.error"
    ELSE IF Len(buf) < 14 THEN "IndexError"
    ELSE IF Len(buf) < 26 THEN "struct.error"
    ELSE ""

HeaderOf(buf) ==
    [version |-> UnpackLE(Rd(buf, 8, 2)),
     alg_ctx |-> buf[11], alg_noctx |-> buf[12], alg_prot |-> buf[13],
     header_size |-> UnpackLE(Rd(buf, 14, 8)),
     num_entries |-> UnpackLE(Rd(buf, 22, 4))]

\* the cursor after the path of the entry that starts at pos
AfterPath(buf, pos) == Min(pos + 3 + UnpackLE(Rd(buf, pos + 1, 2)), Len(buf))

\* the service blob of an entry whose fixed fields start at p1
ServiceAt(buf, p1) == Rd(buf, p1 + 20, UnpackLE(Rd(buf, p1 + 16, 4)))

EntryFields(buf, pos, p1) ==
    [entry_type |-> buf[pos + 1],
     relpath |-> Rd(buf, pos + 3, p1 - (pos + 3)),
     orig_size |-> UnpackLE(Rd(buf, p1, 8)),
     stored_size |-> UnpackLE(Rd(buf, p1 + 8, 8)),
     service |-> ServiceAt(buf, p1),
     next |-> p1 + 20 + Len(ServiceAt(buf, p1))]

\* bytes.decode('utf-8') of a path: ASCII decodes to itself, and a byte
\* above 127 is taken as not decodable
Utf8Fails(str) == \E k \in 1..Len(str) : str[k] > 127

EntryError(buf, pos, p1) ==
    IF pos >= Len(buf) THEN "IndexError"
    ELSE IF pos + 3 > Len(buf) THEN "struct.error"
    ELSE IF Utf8Fails(Rd(buf, pos + 3, p1 - (pos + 3))) THEN "UnicodeDecodeError"
    ELSE IF p1 + 20 > Len(buf) THEN "struct.error"
    ELSE ""

RECURSIVE ParseToc(_, _, _, _)
ParseToc(buf, pos, left, acc) ==
    IF left = 0 THEN Ok([entries |-> acc, pos |-> pos])
    ELSE IF EntryError(buf, pos, AfterPath(buf, pos)) # ""
    THEN Err(EntryError(buf, pos, AfterPath(buf, pos)))
    ELSE ParseToc(buf, EntryFields(buf, pos, AfterPath(buf, pos)).next, left - 1,
                  Append(acc, EntryFields(buf, pos, AfterPath(buf, pos))))

\* header and table of entries, as every decoder reads them:
\* Ok([header, entries, pos]) with pos the cursor after the table
ParseArchive(buf) ==
    IF HeaderError(buf) # "" THEN Err(HeaderError(buf))
    ELSE ParseToc(buf, FIXED_HEADER_LEN, HeaderOf(buf).num_entries, <<>>)

(***************************************************************************)
(* The decoders.  A run is the record                                      *)
(*   files, dirs  the file system (files: location -> bytes)               *)
(*   pos          the cursor in the archive                                *)
(*   log          the entries reported with a checksum mismatch            *)
(*   written      the entries written, with target and bytes               *)
(*   done         the number of entries the loop has finished              *)
(*   routed       the decoder universal_decode called                      *)
(*   err          the exception that ended the run ("" for none)           *)
(***************************************************************************)
EntryResult(raw, writes, mismatch) ==
    Ok([raw |-> raw, writes |-> writes, mismatch |-> mismatch])

Last4(str) == SubSeq(str, Len(str) - 3, Len(str))
DropLast4(str) == SubSeq(str, 1, Len(str) - 4)

\* the comparison of the checksum of the recovered bytes with the stored
\* one; crc_bytes = <<>> stands for crc_val = None
CrcDiffers(raw, crc_bytes) == crc32(raw) # UnpackCrc(crc_bytes)

Checked(r, crc_bytes) ==
    IF ~r.ok THEN r
    ELSE EntryResult(r.val, TRUE, crc_bytes # <<>> /\ CrcDiffers(r.val, crc_bytes))

\* extract_archive: if alg_prot == ALG_PROT_CRC32 and len(service) > 6
ExtractHasCrc(hdr, e) == hdr.alg_prot = ALG_PROT_CRC32 /\ Len(e.service) > 6

\* extract_archive, the body of the loop after the read of the block
ExtractEntry(hdr, e, stored_bytes) ==
    IF e.entry_type # ENTRY_FILE THEN EntryResult(<<>>, FALSE, FALSE)
    ELSE IF hdr.alg_noctx = ALG_NOCTX_HUFFMAN
    THEN Checked(huffman_decode(stored_bytes,
                     IF ExtractHasCrc(hdr, e) THEN DropLast4(e.service) ELSE e.service,
                     e.orig_size),
                 IF ExtractHasCrc(hdr, e) THEN Last4(e.service) ELSE <<>>)
    ELSE EntryResult(stored_bytes, TRUE, FALSE)

\* decode_v1: the checksum is service[:4]; codec 2 is zlib.decompress, which
\* raises on every payload of the model (none is a zlib stream)
V1Entry(hdr, e, stored_bytes) ==
    IF hdr.alg_noctx = ALG_NOCTX_ZLIB THEN Err("zlib.error")
    ELSE Checked(Ok(stored_bytes),
                 IF hdr.alg_prot = ALG_PROT_CRC32 /\ Len(e.service) >= 4
                 THEN Take(e.service, 4) ELSE <<>>)

V2HasCrc(hdr, e) == hdr.alg_prot = ALG_PROT_CRC32 /\ Len(e.service) >= 4

\* decode_v2
V2Entry(hdr, e, stored_bytes) ==
    IF hdr.alg_noctx = ALG_NOCTX_HUFFMAN
    THEN Checked(huffman_decode_bytes(stored_bytes,
                     IF V2HasCrc(hdr, e) THEN DropLast4(e.service) ELSE e.service,
                     e.orig_size),
                 IF V2HasCrc(hdr, e) THEN Last4(e.service) ELSE <<>>)
    ELSE IF hdr.alg_noctx = ALG_NOCTX_ZLIB THEN Err("zlib.error")
    ELSE EntryResult(stored_bytes, TRUE, FALSE)

\* decode_v3: algorithm_code = service[0] if service else 0
V3Code(e) == IF e.service = <<>> THEN 0 ELSE e.service[1]

\* decode_v3: universal_decoder.py defines no huffman_decode, so the call
\* for codec 3 raises NameError
V3Entry(hdr, e, stored_bytes) ==
    IF e.entry_type # ENTRY_FILE THEN EntryResult(<<>>, FALSE, FALSE)
    ELSE IF V3Code(e) = 0
    THEN Checked(Ok(stored_bytes),
                 IF hdr.alg_prot = ALG_PROT_CRC32 /\ Len(Drop(e.service, 1)) >= 4
                 THEN Last4(Drop(e.service, 1)) ELSE <<>>)
    ELSE IF V3Code(e) = 3 THEN Err("NameError")
    ELSE Err("ValueError")

EntryStep(fn, hdr, e, stored_bytes) ==
    CASE fn = "extract_archive" -> ExtractEntry(hdr, e, stored_bytes)
      [] fn = "decode_v1" -> V1Entry(hdr, e, stored_bytes)
      [] fn = "decode_v2" -> V2Entry(hdr, e, stored_bytes)
      [] fn = "decode_v3" -> V3Entry(hdr, e, stored_bytes)

\* Path.mkdir(parents=True, exist_ok=True)
MkdirFails(st, loc) == \E q \in Prefixes(loc) : q \in DOMAIN st.files
Mkdir(st, loc) == [st EXCEPT !.dirs = @ \cup Prefixes(loc)]

Fail(st, e) == [st EXCEPT !.err = e]

\* the file system fs after open(loc, 'wb') and write(bytes)
PutFile(fs, loc, bytes) ==
    [l \in DOMAIN fs \cup {loc} |-> IF l = loc THEN bytes ELSE fs[l]]

Logged(log, i, mismatch) == IF mismatch THEN Append(log, i) ELSE log

\* a loop that raises on a mismatch instead of reporting it: the entry is
\* not written and the run ends there
PutEntryStrict(st, target, i, nread, r) ==
    IF ~r.ok THEN [st EXCEPT !.err = r.err, !.pos = @ + nread]
    ELSE IF r.val.mismatch
    THEN [st EXCEPT !.err = "ValueError", !.pos = @ + nread,
                    !.log = Append(@, i)]
    ELSE IF ~r.val.writes THEN [st EXCEPT !.pos = @ + nread, !.done = i]
    ELSE [st EXCEPT !.files = PutFile(@, target, r.val.raw),
                    !.pos = @ + nread,
                    !.done = i,
                    !.written = Append(@, [entry |-> i, target |-> target,
                                           raw |-> r.val.raw])]

\* the end of one pass of the loop: the report of a mismatch, then
\* open(target, 'wb') and write(raw)
PutEntry(st, target, i, nread, r) ==
    IF ~r.ok THEN [st EXCEPT !.err = r.err, !.pos = @ + nread]
    ELSE IF ~r.val.writes THEN [st EXCEPT !.pos = @ + nread, !.done = i]
    ELSE IF target \in st.dirs
    THEN [st EXCEPT !.err = "IsADirectoryError", !.pos = @ + nread,
                    !.log = Logged(@, i, r.val.mismatch)]
    ELSE [st EXCEPT !.files = PutFile(@, target, r.val.raw),
                    !.pos = @ + nread,
                    !.done = i,
                    !.log = Logged(@, i, r.val.mismatch),
                    !.written = Append(@, [entry |-> i, target |-> target,
                                           raw |-> r.val.raw])]

\* a decoder that reads the block of file entries only: after an entry of
\* another type the cursor stays on that entry's block
DoEntryFilesOnly(fn, hdr, e, i, buf, outdir, st) ==
    IF MkdirFails(st, ParentOf(outdir, e.relpath)) THEN Fail(st, "FileExistsError")
    ELSE IF e.entry_type # ENTRY_FILE
    THEN PutEntry(Mkdir(st, ParentOf(outdir, e.relpath)),
                  TargetOf(outdir, e.relpath), i, 0, EntryStep(fn, hdr, e, <<>>))
    ELSE PutEntry(Mkdir(st, ParentOf(outdir, e.relpath)),
                  TargetOf(outdir, e.relpath), i,
                  Len(Rd(buf, st.pos, e.stored_size)),
                  EntryStep(fn, hdr, e, Rd(buf, st.pos, e.stored_size)))

\* one pass: target.parent.mkdir, the read of stored_size bytes, the codec
DoEntry(fn, hdr, e, i, buf, outdir, st) ==
    IF MkdirFails(st, ParentOf(outdir, e.relpath)) THEN Fail(st, "FileExistsError")
    ELSE PutEntry(Mkdir(st, ParentOf(outdir, e.relpath)),
                  TargetOf(outdir, e.relpath), i,
                  Len(Rd(buf, st.pos, e.stored_size)),
                  EntryStep(fn, hdr, e, Rd(buf, st.pos, e.stored_size)))

RECURSIVE DecodeLoop(_, _, _, _, _, _, _)
DecodeLoop(fn, hdr, entries, i, buf, outdir, st) ==
    IF i > Len(entries) \/ st.err # "" THEN st
    ELSE DecodeLoop(fn, hdr, entries, i + 1, buf, outdir,
                    DoEntry(fn, hdr, entries[i], i, buf, outdir, st))

\* a decoder with a table of entries: parse, outdir.mkdir, the loop
RunDecoder(fn, buf, outdir, st, parsed) ==
    IF ~parsed.ok THEN Fail(st, parsed.err)
    ELSE IF MkdirFails(st, outdir) THEN Fail(st, "FileExistsError")
    ELSE DecodeLoop(fn, HeaderOf(buf), parsed.val.entries, 1, buf, outdir,
                    [Mkdir(st, outdir) EXCEPT !.pos = parsed.val.pos])

\* archiver_huffman.extract_archive
extract_archive(buf, outdir, st) ==
    RunDecoder("extract_archive", buf, outdir, st, ParseArchive(buf))

decode_v1(buf, outdir, st) == RunDecoder("decode_v1", buf, outdir, st, ParseArchive(buf))
decode_v2(buf, outdir, st) == RunDecoder("decode_v2", buf, outdir, st, ParseArchive(buf))
decode_v3(buf, outdir, st) == RunDecoder("decode_v3", buf, outdir, st, ParseArchive(buf))

\* "restored_v0.bin"
RESTORED_V0 == <<114, 101, 115, 116, 111, 114, 101, 100, 95, 118, 48, 46, 98, 105, 110>>

\* decode_v0: seek(8), the u64 length, the bytes, then mkdir and write; a
\* length beyond the range of the model (Huge) is more than f.read can
\* allocate
decode_v0(buf, outdir, st) ==
    IF Len(Rd(buf, 8, 8)) < 8 THEN Fail(st, "struct.error")
    ELSE IF UnpackLE(Rd(buf, 8, 8)) >= Huge THEN Fail(st, "MemoryError")
    ELSE IF Len(Rd(buf, 16, UnpackLE(Rd(buf, 8, 8)))) # UnpackLE(Rd(buf, 8, 8))
    THEN Fail(st, "ValueError")
    ELSE IF MkdirFails(st, outdir) THEN Fail(st, "FileExistsError")
    ELSE IF (outdir \o <<RESTORED_V0>>) \in st.dirs THEN Fail(st, "IsADirectoryError")
    ELSE [Mkdir(st, outdir) EXCEPT
            !.files = PutFile(@, outdir \o <<RESTORED_V0>>,
                              Rd(buf, 16, UnpackLE(Rd(buf, 8, 8)))),
            !.done = 1,
            !.written = Append(@, [entry |-> 1, target |-> outdir \o <<RESTORED_V0>>,
                                   raw |-> Rd(buf, 16, UnpackLE(Rd(buf, 8, 8)))])]

\* a chain of version tests that ends in the newest decoder instead of the
\* RuntimeError: an unknown version then reaches a decoder
RouteOfLenient(version) ==
    IF version = 0 THEN "decode_v0"
    ELSE IF version = 1 THEN "decode_v1"
    ELSE IF version = 2 THEN "decode_v2"
    ELSE "decode_v3"

\* the chain of version tests of universal_decode
RouteOf(version) ==
    IF version = 0 THEN "decode_v0"
    ELSE IF version = 1 THEN "decode_v1"
    ELSE IF version = 2 THEN "decode_v2"
    ELSE IF version = 3 THEN "decode_v3"
    ELSE "none"

Dispatch(route, buf, outdir, st) ==
    CASE route = "decode_v0" -> decode_v0(buf, outdir, [st EXCEPT !.routed = route])
      [] route = "decode_v1" -> decode_v1(buf, outdir, [st EXCEPT !.routed = route])
      [] route = "decode_v2" -> decode_v2(buf, outdir, [st EXCEPT !.routed = route])
      [] route = "decode_v3" -> decode_v3(buf, outdir, [st EXCEPT !.routed = route])
      [] OTHER -> Fail(st, "RuntimeError")

\* version = struct.unpack('<H', head[6:8])[0], head the first 8 bytes
HeadVersion(buf) == UnpackLE(Rd(buf, 6, 2))

\* universal_decoder.universal_decode
universal_decode(buf, outdir, st) ==
    IF Take(buf, 6) # SIGNATURE_PREFIX THEN Fail(st, "ValueError")
    ELSE IF Len(buf) < 8 THEN Fail(st, "struct.error")
    ELSE Dispatch(RouteOf(HeadVersion(buf)), buf, outdir, st)

(***************************************************************************)
(* State.                                                                  *)
(*   data, force, crc_on  the input of one codec call                      *)
(*   enc, dec, sel        the results of huffman_encode, of the decoder    *)
(*                        named by decoder, and of intelligent_encode_file *)
(*   probe                the service blob and the expected length a       *)
(*                        decoder was called with when they are not the    *)
(*                        ones of the encoder                              *)
(*   cpc                  the position of the codec run                    *)
(*   inputs               the entries handed to the archive writer         *)
(*   files, dirs          the file system                                  *)
(*   writer, wres         the writer called and what it returned           *)
(*   tag, flip            what happened to the archive after it was        *)
(*                        written: <<v>> when its signature field carries  *)
(*                        version v in bytes 6..7, <<[entry, bit]>> when a *)
(*                        bit of it was flipped                            *)
(*   retyped              the entry whose type byte was set to ENTRY_DIR   *)
(*   run                  the decoder run (see above), without the files   *)
(*   pc                   the position of the pipeline                     *)
(***************************************************************************)
VARIABLES data, force, crc_on, enc, dec, sel, decoder, probe, cpc,
          inputs, files, dirs, writer, wres, tag, flip, retyped, run, pc

codecVars == <<data, force, crc_on, enc, dec, sel, decoder, probe, cpc>>
archVars == <<inputs, files, dirs, writer, wres, tag, flip, retyped, run, pc>>
vars == <<codecVars, archVars>>

NotRun == Err("not run")

NoProbe == [service |-> <<>>, orig_size |-> -1]

NoWriter == [fn |-> "none", huffman |-> FALSE, crc |-> FALSE, force |-> ForceNone]

NoRun ==
    [fn |-> "none", routed |-> "none", err |-> "", log |-> <<>>,
     written |-> <<>>, done |-> 0, pos |-> 0]

\* locations: the working directory /w, the archive /w/c (named like the
\* input "c", so that an extraction into /w meets it), the output directory
\* /w/out
Cwd == <<<<119>>>>
ArchivePath == Cwd \o <<<<99>>>>
OutDir == Cwd \o <<<<111, 117, 116>>>>
InitDirs == {<<>>, Cwd}

Alphabet == {0, 65, 66}

RECURSIVE SeqsUpTo(_, _)
SeqsUpTo(S, n) ==
    IF n = 0 THEN {<<>>}
    ELSE LET shorter == SeqsUpTo(S, n - 1)
         IN shorter \cup {Append(t, x) : t \in {u \in shorter : Len(u) = n - 1}, x \in S}

\* inputs long enough for the selector to prefer Huffman: a run and a tail
RunLens == {BaseRun - 1, BaseRun, BaseRun + 3, BaseRun + 4}
LongData == {Rep(a, k) \o <<b>> : a \in {65}, b \in {65, 66}, k \in RunLens}

\* inputs of four distinct byte values, each once, in every order; one of
\* the two sets of values holds the byte 0
FourValues == {{1, 2, 3, 4}, {0, 65, 66, 255}}
FourData ==
    {d \in UNION {[1..4 -> V] : V \in FourValues} :
        \A i, j \in 1..4 : i # j => d[i] # d[j]}

\* inputs in which the byte 0 occurs twice and two other bytes once: the
\* leaf for 0 and the node merged from the other two have the same weight
ZeroPairData == {<<0, 0, 65, 66>>, <<65, 0, 66, 0>>}

DataSet == SeqsUpTo(Alphabet, MaxLen) \cup LongData \cup FourData \cup ZeroPairData

\* the files offered to the archive writers: "a" (empty), "d/b" (one byte
\* value), "../x" and "/e" (two byte values), "c" (a long run and a tail)
InputFiles ==
    { [relpath |-> <<97>>, data |-> <<>>],
      [relpath |-> <<100, 47, 98>>, data |-> <<65, 65>>],
      [relpath |-> <<46, 46, 47, 120>>, data |-> <<65, 66>>],
      [relpath |-> <<47, 101>>, data |-> <<0, 65, 0>>],
      [relpath |-> <<99>>, data |-> Rep(65, BaseRun + 4) \o <<66>>] }

InputLists == SeqsUpTo(InputFiles, MaxEntries) \ {<<>>}

CodecIdle ==
    /\ data = <<>>
    /\ force = ForceNone
    /\ crc_on = FALSE
    /\ enc = NotRun
    /\ dec = NotRun
    /\ sel = NotRun
    /\ decoder = "none"
    /\ probe = NoProbe
    /\ cpc = "idle"

ArchIdle ==
    /\ inputs = <<>>
    /\ files = <<>>
    /\ dirs = InitDirs
    /\ writer = NoWriter
    /\ wres = NotRun
    /\ tag = <<>>
    /\ flip = <<>>
    /\ retyped = <<>>
    /\ run = NoRun
    /\ pc = "idle"

(***************************************************************************)
(* The codec on its own.                                                   *)
(***************************************************************************)
InitCodec ==
    /\ data \in DataSet
    /\ force = ForceNone
    /\ crc_on = FALSE
    /\ enc = NotRun
    /\ dec = NotRun
    /\ sel = NotRun
    /\ decoder = "none"
    /\ probe = NoProbe
    /\ cpc = "start"
    /\ ArchIdle

\* huffman_encode(data)
Encode ==
    /\ cpc = "start"
    /\ enc' = huffman_encode(data)
    /\ cpc' = "encoded"
    /\ UNCHANGED <<data, force, crc_on, dec, sel, decoder, probe, archVars>>

\* huffman_decode(payload, service, len(data)) of archiver_huffman
DecodeArchiver ==
    /\ cpc = "encoded"
    /\ enc.ok
    /\ dec' = huffman_decode(enc.val.encoded, enc.val.service, Len(data))
    /\ decoder' = "huffman_decode"
    /\ cpc' = "decoded"
    /\ UNCHANGED <<data, force, crc_on, enc, sel, probe, archVars>>

\* huffman_decode_bytes(payload, service, len(data)) of universal_decoder
DecodeUniversal ==
    /\ cpc = "encoded"
    /\ enc.ok
    /\ dec' = huffman_decode_bytes(enc.val.encoded, enc.val.service, Len(data))
    /\ decoder' = "huffman_decode_bytes"
    /\ cpc' = "decoded"
    /\ UNCHANGED <<data, force, crc_on, enc, sel, probe, archVars>>

\* intelligent_encode_file(data, force_algorithm, enable_crc)
Select ==
    /\ cpc = "start"
    /\ \E f \in {ForceNone, 0, 3}, c \in BOOLEAN :
          /\ force' = f
          /\ crc_on' = c
          /\ sel' = intelligent_encode_file(data, f, c)
    /\ cpc' = "selected"
    /\ UNCHANGED <<data, enc, dec, decoder, probe, archVars>>

\* the service blobs a decoder may be handed instead of service: cut short,
\* or with the symbol count set to 1
SetCount(service, n) ==
    [k \in 1..Len(service) |->
        IF k = 3 THEN n % 256 ELSE IF k = 4 THEN n \div 256 ELSE service[k]]

Damaged(service) ==
    {Take(service, k) : k \in 0..(Len(service) - 1)} \cup {SetCount(service, 1)}

\* the calls of a decoder on the payload of the encoder: the service blob
\* of the encoder with an expected length up to len(data), or a damaged
\* service blob with the expected length len(data)
Probes ==
    {[service |-> enc.val.service, orig_size |-> n] : n \in 0..Len(data)}
    \cup {[service |-> svc, orig_size |-> Len(data)] :
              svc \in Damaged(enc.val.service)}

Probed(name, p, r) ==
    /\ dec' = r
    /\ decoder' = name
    /\ probe' = p
    /\ cpc' = "probed"
    /\ UNCHANGED <<data, force, crc_on, enc, sel, archVars>>

\* huffman_decode(payload, p.service, p.orig_size) of archiver_huffman
ProbeArchiver ==
    /\ cpc = "encoded"
    /\ enc.ok
    /\ \E p \in Probes :
          Probed("huffman_decode", p,
                 huffman_decode(enc.val.encoded, p.service, p.orig_size))

\* huffman_decode_bytes(payload, p.service, p.orig_size) of universal_decoder
ProbeUniversal ==
    /\ cpc = "encoded"
    /\ enc.ok
    /\ \E p \in Probes :
          Probed("huffman_decode_bytes", p,
                 huffman_decode_bytes(enc.val.encoded, p.service, p.orig_size))

NextCodec ==
    \/ Encode
    \/ DecodeArchiver
    \/ DecodeUniversal
    \/ Select
    \/ ProbeArchiver
    \/ ProbeUniversal

SpecCodec == InitCodec /\ [][NextCodec]_vars

(***************************************************************************)
(* The archive: written, possibly damaged, then decoded.                   *)
(***************************************************************************)
Init ==
    /\ CodecIdle
    /\ inputs \in InputLists
    /\ files = <<>>
    /\ dirs = InitDirs
    /\ writer = NoWriter
    /\ wres = NotRun
    /\ tag = <<>>
    /\ flip = <<>>
    /\ retyped = <<>>
    /\ run = NoRun
    /\ pc = "init"

\* a writer that opens the output in append mode: a second run adds to
\* the archive of the first
WriteOutAppending(r) ==
    IF ~r.ok THEN files
    ELSE IF ArchivePath \in DOMAIN files
    THEN [files EXCEPT ![ArchivePath] = @ \o r.val]
    ELSE PutFile(files, ArchivePath, r.val)

\* open(out_path, 'wb') and the writes: the file is replaced
WriteOut(r) == IF r.ok THEN PutFile(files, ArchivePath, r.val) ELSE files

\* the writer returned r: open(out_path, 'wb') and the writes happen only
\* when every entry was encoded
Written(w, r) ==
    /\ writer' = w
    /\ wres' = r
    /\ files' = WriteOut(r)
    /\ pc' = IF r.ok THEN "written" ELSE "failed"
    /\ UNCHANGED <<codecVars, inputs, dirs, tag, flip, retyped, run>>

\* build_archive(entries, out_path, huffman, crc)
BuildArchive ==
    /\ pc = "init"
    /\ \E h \in BOOLEAN, c \in BOOLEAN :
          Written([fn |-> "build_archive", huffman |-> h, crc |-> c,
                   force |-> ForceNone],
                  build_archive(inputs, h, c))

\* create_intelligent_archive(input_files, output_file, force_algorithm, enable_crc)
CreateIntelligentArchive ==
    /\ pc = "init"
    /\ \E f \in {ForceNone, 0, 3}, c \in BOOLEAN :
          Written([fn |-> "create_intelligent_archive", huffman |-> FALSE,
                   crc |-> c, force |-> f],
                  create_intelligent_archive(inputs, f, c))

Archive == files[ArchivePath]

\* the call of the writer w on the entries
RunWriter(w) ==
    IF w.fn = "build_archive" THEN build_archive(inputs, w.huffman, w.crc)
    ELSE create_intelligent_archive(inputs, w.force, w.crc)

\* the flags the writers are called with
WriterCalls ==
    {[fn |-> "build_archive", huffman |-> h, crc |-> c, force |-> ForceNone] :
        h \in BOOLEAN, c \in BOOLEAN}
    \cup {[fn |-> "create_intelligent_archive", huffman |-> FALSE, crc |-> c,
           force |-> f] : f \in {ForceNone, 0, 3}, c \in BOOLEAN}

\* the lengths of the output file between two write calls: after open, after
\* the signature, after the fixed header, after the table of entries
CutPoints(buf) ==
    {k \in {0, 8, FIXED_HEADER_LEN, HeaderOf(buf).header_size} : k < Len(buf)}

\* a write call of the writer w raises OSError (the device is full, the
\* medium fails) after k bytes of the archive r.val went to the file
Broken(w, r) ==
    /\ r.ok
    /\ \E k \in CutPoints(r.val) :
          files' = PutFile(files, ArchivePath, Take(r.val, k))
    /\ writer' = w
    /\ wres' = Err("OSError")
    /\ pc' = "failed"
    /\ UNCHANGED <<codecVars, inputs, dirs, tag, flip, retyped, run>>

\* build_archive or save_archive_v3 with a write that fails
WriteFails ==
    /\ pc = "init"
    /\ \E w \in WriterCalls : Broken(w, RunWriter(w))

Rewritten(r) ==
    /\ wres' = r
    /\ files' = WriteOut(r)
    /\ pc' = "rewritten"
    /\ UNCHANGED <<codecVars, inputs, dirs, writer, tag, flip, retyped, run>>

\* the same writer runs a second time on the same entries with the same
\* flags and the same output path
Rerun ==
    /\ pc = "written"
    /\ tag = <<>>
    /\ flip = <<>>
    /\ retyped = <<>>
    /\ Rewritten(RunWriter(writer))

SetBytes(buf, from, bytes) ==
    [k \in 1..Len(buf) |->
        IF k >= from /\ k < from + Len(bytes) THEN bytes[k - from + 1] ELSE buf[k]]

FlipBit(byte, b) ==
    IF (byte \div Pow2(b)) % 2 = 1 THEN byte - Pow2(b) ELSE byte + Pow2(b)

Versions == {0, 1, 2, 3, 99}

\* an archive of a writer that keeps the version in bytes 6..7 of the
\* signature field, the place universal_decode reads it from
Retag ==
    /\ pc = "written"
    /\ tag = <<>>
    /\ flip = <<>>
    /\ retyped = <<>>
    /\ \E v \in Versions :
          /\ tag' = <<v>>
          /\ files' = [files EXCEPT ![ArchivePath] = SetBytes(@, 7, PackU16(v))]
    /\ UNCHANGED <<codecVars, inputs, dirs, writer, wres, flip, retyped, run, pc>>

\* the offset of the payload block of entry e
BlockStart(parsed, e) ==
    LET RECURSIVE Sum(_)
        Sum(k) == IF k = 0 THEN 0
                  ELSE parsed.entries[k].stored_size + Sum(k - 1)
    IN parsed.pos + Sum(e - 1)

FlipBits == {0, 7}

\* one bit of the first byte of a payload block is flipped
FlipPayload ==
    /\ pc = "written"
    /\ flip = <<>>
    /\ retyped = <<>>
    /\ \E e \in 1..Len(inputs), b \in FlipBits :
          /\ ParseArchive(Archive).val.entries[e].stored_size > 0
          /\ flip' = <<[entry |-> e, bit |-> b]>>
          /\ files' = [files EXCEPT ![ArchivePath] =
                          [@ EXCEPT ![BlockStart(ParseArchive(Archive).val, e) + 1]
                                       = FlipBit(@, b)]]
    /\ UNCHANGED <<codecVars, inputs, dirs, writer, wres, tag, retyped, run, pc>>

\* one bit of the magic is flipped (entry 0 stands for the header)
FlipMagic ==
    /\ pc = "written"
    /\ flip = <<>>
    /\ retyped = <<>>
    /\ flip' = <<[entry |-> 0, bit |-> 0]>>
    /\ files' = [files EXCEPT ![ArchivePath] = [@ EXCEPT ![1] = FlipBit(@, 0)]]
    /\ UNCHANGED <<codecVars, inputs, dirs, writer, wres, tag, retyped, run, pc>>

ENTRY_DIR == 0

\* the offset of the table entry e (its first byte is the entry type)
TocStart(parsed, e) ==
    IF e = 1 THEN FIXED_HEADER_LEN ELSE parsed.entries[e - 1].next

\* the archive with the type byte of entry e set to ENTRY_DIR
WithDirEntry(buf, parsed, e) == SetBytes(buf, TocStart(parsed, e) + 1, PackU8(ENTRY_DIR))

\* an archive whose table names entry e as a directory, with its payload
\* block left in place
RetypeEntry ==
    /\ pc = "written"
    /\ tag = <<>>
    /\ flip = <<>>
    /\ retyped = <<>>
    /\ \E e \in 1..Len(inputs) :
          /\ retyped' = <<e>>
          /\ files' = [files EXCEPT ![ArchivePath] =
                          WithDirEntry(@, ParseArchive(@).val, e)]
    /\ UNCHANGED <<codecVars, inputs, dirs, writer, wres, tag, flip, run, pc>>

\* the decoder fn ended in the run st
Decoded(fn, st) ==
    /\ files' = st.files
    /\ dirs' = st.dirs
    /\ run' = [fn |-> fn, routed |-> st.routed, err |-> st.err, log |-> st.log,
               written |-> st.written, done |-> st.done, pos |-> st.pos]
    /\ pc' = "decoded"
    /\ UNCHANGED <<codecVars, inputs, writer, wres, tag, flip, retyped>>

StartRun ==
    [files |-> files, dirs |-> dirs, pos |-> 0, log |-> <<>>, written |-> <<>>,
     done |-> 0, routed |-> "none", err |-> ""]

\* extract_archive(archive_path, out_dir)
ExtractArchive ==
    /\ pc = "written"
    /\ Decoded("extract_archive", extract_archive(Archive, OutDir, StartRun))

\* universal_decode(archive_path, outdir)
UniversalDecode ==
    /\ pc = "written"
    /\ Decoded("universal_decode", universal_decode(Archive, OutDir, StartRun))

\* decode_v3(archive_path, outdir), called on the archive itself
DecodeV3 ==
    /\ pc = "written"
    /\ Decoded("decode_v3", decode_v3(Archive, OutDir, StartRun))

\* a run of fn with the directory of the archive as output directory
DecodedInPlace(fn, st) ==
    /\ files' = st.files
    /\ dirs' = st.dirs
    /\ run' = [fn |-> fn, routed |-> st.routed, err |-> st.err, log |-> st.log,
               written |-> st.written, done |-> st.done, pos |-> st.pos]
    /\ pc' = "decoded in place"
    /\ UNCHANGED <<codecVars, inputs, writer, wres, tag, flip, retyped>>

\* extract_archive(archive_path, out_dir) with out_dir the directory that
\* holds the archive
ExtractArchiveInPlace ==
    /\ pc = "written"
    /\ flip = <<>>
    /\ retyped = <<>>
    /\ DecodedInPlace("extract_archive", extract_archive(Archive, Cwd, StartRun))

\* universal_decode(archive_path, outdir) with outdir the directory that
\* holds the archive
UniversalDecodeInPlace ==
    /\ pc = "written"
    /\ flip = <<>>
    /\ retyped = <<>>
    /\ DecodedInPlace("universal_decode", universal_decode(Archive, Cwd, StartRun))

Next ==
    \/ BuildArchive
    \/ CreateIntelligentArchive
    \/ WriteFails
    \/ Rerun
    \/ Retag
    \/ RetypeEntry
    \/ FlipPayload
    \/ FlipMagic
    \/ ExtractArchive
    \/ UniversalDecode
    \/ DecodeV3
    \/ ExtractArchiveInPlace
    \/ UniversalDecodeInPlace

Spec == Init /\ [][Next]_vars

(***************************************************************************)
(* Properties of the codec (checked under SpecCodec).                      *)
(***************************************************************************)
SingleSymbol(d) == Len(d) >= 1 /\ \A i \in 1..Len(d) : d[i] = d[1]
TwoSymbols(d) == \E i, j \in 1..Len(d) : d[i] # d[j]

\* the code table huffman_encode builds for d
CodesOf(d) == build_codes(<<build_huffman_tree(Counter(d)).val>>, <<>>)

\* C1: round trip of the codec.  For every byte sequence d, the empty one
\* and a run of one byte value included, huffman_encode(d) returns a
\* (payload, service) pair, huffman_decode(payload, service, len(d)) returns
\* exactly d, and the store codec keeps the bytes of d.
C1_RoundTrip ==
    /\ (cpc = "encoded" => enc.ok)
    /\ (cpc = "decoded" /\ decoder = "huffman_decode"
            => dec.ok /\ dec.val = data)
    /\ (cpc = "selected" /\ force = 0
            => sel.ok /\ sel.val.encoded_data = data)

\* The round trip does hold for every input with two distinct byte values.
RoundTripTwoSymbols ==
    TwoSymbols(data) =>
        /\ (cpc = "encoded" => enc.ok)
        /\ (cpc = "decoded" => dec.ok /\ dec.val = data)

\* C4: single-symbol input.  For n >= 1 copies of one byte value,
\* huffman_encode succeeds, the byte gets the 1-bit code "0", the frequency
\* table is the one pair (symbol, n), the payload has ceil(n/8) bytes, and
\* decoding gives the input back.
C4_SingleSymbol ==
    SingleSymbol(data) =>
        /\ (cpc = "encoded" =>
               /\ enc.ok
               /\ CodesOf(data).ok
               /\ CodesOf(data).val = (data[1] :> <<0>>)
               /\ Drop(enc.val.service, 2)
                     = PackU16(1) \o PackU8(data[1]) \o PackU32(Len(data))
               /\ Len(enc.val.encoded) = (Len(data) + 7) \div 8)
        /\ (cpc = "decoded" => dec.ok /\ dec.val = data)

\* C5: empty input is defined.  huffman_encode(b"") returns an empty payload
\* and a service blob with padding 0 and symbolCount 0, and
\* intelligent_encode_file of an empty file completes with a stored size of 0.
C5_EmptyInput ==
    data = <<>> =>
        /\ (cpc = "encoded" =>
               /\ enc.ok
               /\ enc.val.encoded = <<>>
               /\ enc.val.service = PackU16(0) \o PackU16(0))
        /\ (cpc = "selected" => sel.ok /\ sel.val.encoded_data = <<>>)

\* C6: selector soundness in the adaptive mode.  intelligent_encode_file
\* returns codec 3 only when payload + service (+ 4 with protection) is
\* strictly smaller than the input, otherwise codec 0 with the raw bytes,
\* and it returns one of the two for every input.
HuffmanTotal(d, c) ==
    Len(huffman_encode(d).val.encoded) + Len(huffman_encode(d).val.service) + Crc4(c)

C6_SelectorSound ==
    cpc = "selected" /\ force = ForceNone =>
        /\ sel.ok
        /\ sel.val.algorithm_code \in {0, 3}
        /\ (sel.val.algorithm_code = 3 => HuffmanTotal(data, crc_on) < Len(data))
        /\ (sel.val.algorithm_code = 0 =>
               /\ ~(HuffmanTotal(data, crc_on) < Len(data))
               /\ sel.val.encoded_data = data)

\* Whenever the selector does return, its choice is the sound one.
SelectorSoundWhenReturns ==
    cpc = "selected" /\ force = ForceNone /\ sel.ok =>
        /\ sel.val.algorithm_code \in {0, 3}
        /\ (sel.val.algorithm_code = 3 <=> HuffmanTotal(data, crc_on) < Len(data))
        /\ (sel.val.algorithm_code = 0 => sel.val.encoded_data = data)

HuffmanChosen ==
    cpc = "selected" /\ force = ForceNone /\ sel.ok /\ sel.val.algorithm_code = 3
(***************************************************************************)
(* Properties of the archive (checked under Spec).                         *)
(***************************************************************************)
UniversalRan == pc = "decoded" /\ run.fn = "universal_decode"

\* the decoder that ran, whether called directly or by universal_decode
Ran == IF run.fn = "universal_decode" THEN run.routed ELSE run.fn

AsWritten == tag = <<>> /\ flip = <<>> /\ retyped = <<>>

\* C2: version routing.  universal_decode hands an archive whose header
\* declares version 0, 1, 2 or 3 (the u16 after the 8-byte signature field)
\* to decode_v0 .. decode_v3; so the archives of build_archive go to
\* decode_v2 and those of save_archive_v3 to decode_v3.
C2_VersionRouting ==
    UniversalRan /\ AsWritten /\ HeaderOf(Archive).version \in 0..3
        => run.routed = RouteOf(HeaderOf(Archive).version)

\* What the code does route by: the u16 in bytes 6..7 of the signature field.
RoutesByHeadVersion ==
    UniversalRan /\ Take(Archive, 6) = SIGNATURE_PREFIX
        => run.routed = RouteOf(HeadVersion(Archive))

RoutedV2 == UniversalRan /\ run.routed = "decode_v2" /\ run.err = ""

\* C3: fatal dispatch errors leave no trace.  When the first 6 bytes are not
\* the magic, or the version universal_decode reads is not 0, 1, 2 or 3,
\* universal_decode raises before any decoder runs and creates or writes no
\* directory and no file.
C3_FatalDispatch ==
    [][ /\ pc = "written"
        /\ pc' = "decoded"
        /\ run'.fn = "universal_decode"
        /\ \/ Take(Archive, 6) # SIGNATURE_PREFIX
           \/ HeadVersion(Archive) \notin 0..3
        => /\ run'.err # ""
           /\ run'.routed = "none"
           /\ files' = files
           /\ dirs' = dirs ]_vars

UnknownVersionRaised ==
    /\ UniversalRan
    /\ tag = <<99>>
    /\ run.err = "RuntimeError"
    /\ run.routed = "none"
    /\ DOMAIN files = {ArchivePath}

BadMagicRaised ==
    /\ UniversalRan
    /\ flip # <<>> /\ flip[1].entry = 0
    /\ run.err = "ValueError"
    /\ dirs = InitDirs

\* the decoder that ran is the one of the format the writer wrote
Matching ==
    \/ writer.fn = "build_archive" /\ Ran \in {"extract_archive", "decode_v2"}
    \/ writer.fn = "create_intelligent_archive" /\ Ran = "decode_v3"

PayloadFlipped == flip # <<>> /\ flip[1].entry >= 1

RecoveredDiffers(e) ==
    \E k \in 1..Len(run.written) :
        run.written[k].entry = e /\ run.written[k].raw # inputs[e].data

Reported(e) == \E k \in 1..Len(run.log) : run.log[k] = e

\* C7: checksum sensitivity.  In an archive written with protection, a
\* flipped bit of an entry's payload block that changes the bytes the
\* decoder recovers for the entry is reported as a checksum mismatch for
\* that entry, for store-coded and Huffman-coded entries, by extract_archive,
\* decode_v2 and decode_v3.
C7_ChecksumSensitivity ==
    pc = "decoded" /\ writer.crc /\ PayloadFlipped /\ Matching
        /\ RecoveredDiffers(flip[1].entry)
        => Reported(flip[1].entry)

\* The Huffman-coded entries of build_archive are covered in both v2 decoders.
HuffmanFlipReported ==
    pc = "decoded" /\ writer.crc /\ PayloadFlipped /\ Matching
        /\ writer.fn = "build_archive" /\ writer.huffman
        /\ RecoveredDiffers(flip[1].entry)
        => Reported(flip[1].entry)

HuffmanFlipSeen ==
    /\ pc = "decoded" /\ writer.crc /\ PayloadFlipped /\ Matching
    /\ writer.huffman
    /\ RecoveredDiffers(flip[1].entry)
    /\ Reported(flip[1].entry)

\* C8: path traversal is rejected.  Whatever the paths of the entries
\* (".." components and absolute paths included), no decoder creates a file
\* or a directory outside the output directory.
C8_NoTraversal ==
    pc = "decoded" =>
        /\ \A f \in DOMAIN files \ {ArchivePath} : IsUnder(OutDir, f)
        /\ \A d \in dirs \ InitDirs : IsUnder(OutDir, d)

WrittenEntries == {run.written[k].entry : k \in 1..Len(run.written)}

\* the file of a written entry holds its bytes, unless a later entry of the
\* run was written to the same location
Holds(k) ==
    (\A j \in (k + 1)..Len(run.written) :
         run.written[j].target # run.written[k].target)
        => /\ run.written[k].target \in DOMAIN files
           /\ files[run.written[k].target] = run.written[k].raw

\* C9: a checksum mismatch is per-entry and not fatal.  The decoder that
\* reports a mismatch for an entry still writes the recovered bytes of the
\* entry to its file and goes on with the later entries: the run does not
\* end at that entry, and extract_archive, decode_v1 and decode_v2 write
\* every entry of the archive.
C9_MismatchNotFatal ==
    pc = "decoded" /\ run.log # <<>> =>
        /\ \A i \in 1..Len(run.log) :
              /\ run.log[i] \in WrittenEntries
              /\ run.log[i] <= run.done
        /\ \A k \in 1..Len(run.written) : Holds(k)
        /\ (Ran \in {"extract_archive", "decode_v1", "decode_v2"} =>
               /\ run.err = ""
               /\ WrittenEntries = 1..Len(inputs))

MismatchThenMore ==
    /\ pc = "decoded"
    /\ Len(inputs) = 2
    /\ run.log # <<>> /\ run.log[1] = 1
    /\ PayloadFlipped
    /\ WrittenEntries = {1, 2}
    /\ RecoveredDiffers(1)

RECURSIVE TocLen(_, _)
TocLen(entries, k) ==
    IF k = 0 THEN 0
    ELSE 1 + 2 + Len(entries[k].relpath) + 8 + 8 + 4 + Len(entries[k].service)
         + TocLen(entries, k - 1)

RECURSIVE BlocksLen(_, _)
BlocksLen(entries, k) ==
    IF k = 0 THEN 0 ELSE entries[k].stored_size + BlocksLen(entries, k - 1)

HeaderExact(buf, parsed) ==
    /\ parsed.ok
    /\ Len(parsed.val.entries) = Len(inputs)
    /\ HeaderOf(buf).header_size = 26 + TocLen(parsed.val.entries, Len(inputs))
    /\ HeaderOf(buf).header_size = parsed.val.pos
    /\ Len(buf) = HeaderOf(buf).header_size
                     + BlocksLen(parsed.val.entries, Len(inputs))
    /\ (~writer.huffman /\ writer.force = ForceNone /\ writer.fn = "build_archive"
            => Rd(buf, HeaderOf(buf).header_size, Len(inputs[1].data))
                   = inputs[1].data)

\* C10: headerSize is exact.  In every archive written by build_archive or
\* save_archive_v3 the headerSize field is 26 plus the length of all entries
\* of the table, the first payload block starts at that offset, and it is
\* the position of a decoder that has parsed entryCount entries.
C10_HeaderSizeExact ==
    pc = "written" /\ AsWritten => HeaderExact(Archive, ParseArchive(Archive))

TwoEntriesWritten ==
    /\ pc = "written" /\ AsWritten
    /\ Len(inputs) = 2
    /\ writer.fn = "create_intelligent_archive"
    /\ HeaderOf(Archive).header_size > 26 + 2 * 23

CodecIds ==
    CASE Ran = "decode_v1" -> {0, 2}
      [] Ran = "decode_v2" -> {0, 2, 3}
      [] Ran = "decode_v3" -> {0, 3}
      [] OTHER -> {}

\* the codec id the decoder that ran takes for entry e
CodecIdOf(hdr, e) == IF Ran = "decode_v3" THEN V3Code(e) ELSE hdr.alg_noctx

\* decode_v3 looks at the codec byte of file entries only
MeetsCodec(e) == Ran = "decode_v3" => e.entry_type = ENTRY_FILE

UnsupportedWritten(hdr, entries) ==
    \E i \in 1..Len(entries) :
        /\ MeetsCodec(entries[i])
        /\ CodecIdOf(hdr, entries[i]) \notin CodecIds
        /\ (run.err = "" \/ i \in WrittenEntries)

\* C12: an unsupported codec id is fatal.  decode_v1, decode_v2 or
\* decode_v3 meeting a codec id outside the ids of its schema (the header
\* tag in v1 and v2, the first service byte in v3) raises, and does not
\* write the payload of that entry as if it were stored raw.
C12_UnsupportedCodecFatal ==
    pc = "decoded" /\ Ran \in {"decode_v1", "decode_v2", "decode_v3"}
        /\ ParseArchive(Archive).ok
        => ~UnsupportedWritten(HeaderOf(Archive), ParseArchive(Archive).val.entries)

\* decode_v3 does raise on the ids it does not know.
UnsupportedFatalV3 ==
    pc = "decoded" /\ Ran = "decode_v3" /\ ParseArchive(Archive).ok
        => ~UnsupportedWritten(HeaderOf(Archive), ParseArchive(Archive).val.entries)

UnknownIdRaisedV3 ==
    /\ pc = "decoded" /\ Ran = "decode_v3"
    /\ run.err = "ValueError"
    /\ V3Code(ParseArchive(Archive).val.entries[run.done + 1]) \notin {0, 3}

(***************************************************************************)
(* Properties of the decoders on a service blob or an expected length that *)
(* are not the encoder's (checked under SpecCodec).                        *)
(***************************************************************************)
\* the symbol count field of a service blob of at least 4 bytes
CountField(service) == service[3] + 256 * service[4]

TruncatedService(service) ==
    Len(service) < 4 \/ Len(service) < 4 + 5 * CountField(service)

\* the bits of the payload before the padding declared by the service blob
DataBits(encoded, service) ==
    StripPadding(BitStr(encoded), service[1] + 256 * service[2])

\* with one symbol in the table only the left child of the root exists: a
\* 1 bit among the first orig_size bits leads to the missing right child
MissingChild(encoded, service, orig_size) ==
    /\ ~TruncatedService(service)
    /\ CountField(service) = 1
    /\ \E k \in 1..Len(DataBits(encoded, service)) :
          k <= orig_size /\ DataBits(encoded, service)[k] = 1

\* C13: truncated or inconsistent Huffman service metadata fails with an
\* error.  When the service blob is shorter than 4 + 5 * symbolCount bytes
\* (shorter than 4 bytes included), or the bits lead to a missing child of
\* the rebuilt tree, huffman_decode and huffman_decode_bytes raise; they
\* never return bytes as if the decoding had succeeded.
C13_BadServiceRaises ==
    cpc = "probed"
        /\ (\/ TruncatedService(probe.service)
            \/ MissingChild(enc.val.encoded, probe.service, probe.orig_size))
        => ~dec.ok

\* huffman_decode of archiver_huffman does raise in all these cases, and so
\* does huffman_decode_bytes on a service blob of 4 bytes or more.
BadServiceRaisesFrom4 ==
    cpc = "probed"
        /\ (\/ TruncatedService(probe.service)
            \/ MissingChild(enc.val.encoded, probe.service, probe.orig_size))
        /\ (decoder = "huffman_decode" \/ Len(probe.service) >= 4)
        => ~dec.ok

MissingChildRaised ==
    /\ cpc = "probed"
    /\ MissingChild(enc.val.encoded, probe.service, probe.orig_size)
    /\ dec = Err("AttributeError")

(***************************************************************************)
(* More properties of the archive (checked under Spec).                    *)
(***************************************************************************)
\* buf is a complete archive: the header and the table parse and the
\* payload blocks the table announces are all there
WellFormed(buf, parsed) ==
    /\ parsed.ok
    /\ Len(buf) = HeaderOf(buf).header_size
                     + BlocksLen(parsed.val.entries, Len(parsed.val.entries))

\* C14: the writer never leaves a corrupted file at the output path.  When
\* build_archive or create_intelligent_archive fails at any step (reading
\* or encoding an entry, writing the header, the table or a block), the
\* output path holds no file or a complete well-formed archive.
C14_NoPartialArchive ==
    pc = "failed" /\ ArchivePath \in DOMAIN files
        => WellFormed(Archive, ParseArchive(Archive))

\* A failure of the encoding of an entry does leave the output path alone.
EncodingFailureLeavesNothing ==
    pc = "failed" /\ wres.err # "OSError" => ArchivePath \notin DOMAIN files

EncodingFailed ==
    pc = "failed" /\ wres.err = "IndexError" /\ ArchivePath \notin DOMAIN files

(***************************************************************************)
(* More properties of the codec (checked under SpecCodec).                 *)
(***************************************************************************)
\* every byte of d has a code of n bits in the codebook
AllCodesOfLen(codebook, d, n) ==
    codebook.ok /\ \A i \in 1..Len(d) : Len(codebook.val[d[i]]) = n

FourDistinct(d) == Len(d) = 4 /\ \A i, j \in 1..4 : i # j => d[i] # d[j]

\* C15: four distinct equally frequent bytes.  For an input of four
\* distinct byte values, each once (one of them may be 0), every symbol
\* gets a 2-bit code, the data bits are 8, the padding is 0 and the payload
\* is one byte.
C15_FourEqualSymbols ==
    cpc = "encoded" /\ FourDistinct(data) =>
        /\ enc.ok
        /\ AllCodesOfLen(CodesOf(data), data, 2)
        /\ Take(enc.val.service, 2) = PackU16(0)
        /\ Len(enc.val.encoded) = 1

FourWithZeroEncoded ==
    /\ cpc = "encoded"
    /\ FourDistinct(data)
    /\ \E i \in 1..4 : data[i] = 0
    /\ enc.ok
    /\ Len(enc.val.encoded) = 1

\* the data bits of an encoder result: payload bits without the padding
DataBitCount(r) == 8 * Len(r.encoded) - UnpackLE(Take(r.service, 2))

RECURSIVE PowInt(_, _)
PowInt(b, e) == IF e = 0 THEN 1 ELSE b * PowInt(b, e - 1)

\* the product of c^c over the counts c of a frequency table
RECURSIVE SelfPowers(_)
SelfPowers(freqs) ==
    IF freqs = <<>> THEN 1
    ELSE PowInt(Head(freqs).fr, Head(freqs).fr) * SelfPowers(Tail(freqs))

\* n*H <= bits <= n*(H+1) for the entropy H of the table, in integers:
\* n*H = n*log2(n) - sum of c*log2(c), so the bounds are
\* n^n <= 2^bits * prod c^c <= n^n * 2^n
WithinEntropy(n, freqs, bits) ==
    /\ PowInt(n, n) <= Pow2(bits) * SelfPowers(freqs)
    /\ Pow2(bits) * SelfPowers(freqs) <= PowInt(n, n) * Pow2(n)

\* inputs short enough for the products above to stay in 32 bits
EntropyInput(d) == d # <<>> /\ Len(d) <= MaxLen + 1

\* C16: entropy bound.  For every non-empty input of length n with empirical
\* entropy H, huffman_encode produces a number of data bits (before padding)
\* between n*H and n*(H+1).
C16_EntropyBound ==
    cpc = "encoded" /\ EntropyInput(data) =>
        enc.ok /\ WithinEntropy(Len(data), Counter(data), DataBitCount(enc.val))

\* what the code does keep: whenever huffman_encode returns, the data bits
\* are within the entropy bound
EntropyBoundWhenReturns ==
    cpc = "encoded" /\ EntropyInput(data) /\ enc.ok =>
        WithinEntropy(Len(data), Counter(data), DataBitCount(enc.val))

\* an input of three distinct bytes was encoded: 5 data bits, between
\* 3*log2(3) = 4.75.. and 7.75..
ThreeSymbolsEncoded ==
    /\ cpc = "encoded"
    /\ enc.ok
    /\ Len(data) = 3
    /\ Len(Counter(data)) = 3
    /\ DataBitCount(enc.val) = 5

(***************************************************************************)
(* More properties of the archives and the decoders (checked under Spec).  *)
(***************************************************************************)
\* the archive of create_intelligent_archive, as written, was given to
\* decode_v3
V3OnOwnArchive ==
    /\ pc = "decoded"
    /\ Ran = "decode_v3"
    /\ writer.fn = "create_intelligent_archive"
    /\ flip = <<>>
    /\ retyped = <<>>

\* entry i of the archive was written by the run with the bytes of input i
Restored(i) ==
    \E k \in 1..Len(run.written) :
        run.written[k].entry = i /\ run.written[k].raw = inputs[i].data

HuffmanEntry(i) == V3Code(ParseArchive(Archive).val.entries[i]) = ALG_NOCTX_HUFFMAN

\* C17: decode_v3 restores the entries of create_intelligent_archive.  An
\* entry whose service blob starts with codec byte 3 is decoded with the
\* Huffman codec from the rest of the blob, one with codec byte 0 is written
\* unchanged, so every file of the archive is restored byte-identical.
C17_V3Restores ==
    V3OnOwnArchive =>
        /\ run.err = ""
        /\ \A i \in 1..Len(inputs) : Restored(i)
        /\ \A k \in 1..Len(run.written) : Holds(k)

\* what decode_v3 does restore: the entries stored with codec byte 0 that
\* come before the first Huffman entry
V3RestoresStored ==
    V3OnOwnArchive =>
        /\ (run.err = "" <=> \A i \in 1..Len(inputs) : ~HuffmanEntry(i))
        /\ \A i \in 1..Len(inputs) :
              (\A j \in 1..i : ~HuffmanEntry(j)) => Restored(i)
        /\ \A i \in 1..Len(inputs) :
              HuffmanEntry(i) /\ (\A j \in 1..(i - 1) : ~HuffmanEntry(j))
                  => run.err = "NameError" /\ run.done = i - 1

\* decode_v3 met a Huffman entry after a stored one
V3HuffmanAfterStored ==
    /\ V3OnOwnArchive
    /\ run.fn = "decode_v3"
    /\ Len(inputs) = 2
    /\ ~HuffmanEntry(1) /\ HuffmanEntry(2)
    /\ Restored(1)
    /\ run.err = "NameError"

\* the service blob of entry i of the archive ends with the checksum of the
\* bytes of input i
CarriesChecksum(service, raw) ==
    Len(service) >= 4 /\ Last4(service) = PackCrc(crc32(raw))

ProtectedWritten ==
    /\ pc = "written"
    /\ AsWritten
    /\ writer.crc
    /\ HeaderOf(Archive).alg_prot = ALG_PROT_CRC32

EntryCarries(entries, i) == CarriesChecksum(entries[i].service, inputs[i].data)

AllCarry(entries) == \A i \in 1..Len(inputs) : EntryCarries(entries, i)

\* C18: with protection every entry carries its checksum.  In an archive
\* written with the protection flag (header tag 11) the service blob of
\* every file entry, stored raw or Huffman-coded, codec forced or chosen,
\* holds the 4-byte checksum of the entry's original bytes.
C18_EveryEntryChecksummed ==
    ProtectedWritten => AllCarry(ParseArchive(Archive).val.entries)

HuffmanOrV2(entries, i) ==
    writer.fn = "build_archive" \/ V3Code(entries[i]) = ALG_NOCTX_HUFFMAN

CarriedWhereCoded(entries) ==
    \A i \in 1..Len(inputs) :
        (HuffmanOrV2(entries, i) <=> EntryCarries(entries, i))

\* what the writers do: build_archive gives every entry its checksum,
\* save_archive_v3 only the Huffman-coded ones
ChecksumExceptV3Stored ==
    ProtectedWritten => CarriedWhereCoded(ParseArchive(Archive).val.entries)

\* a protected v3 archive with a stored entry chosen by the selector
V3StoredUnprotected ==
    /\ ProtectedWritten
    /\ writer.fn = "create_intelligent_archive"
    /\ writer.force = ForceNone
    /\ Len(ParseArchive(Archive).val.entries[1].service) = 1

(***************************************************************************)
(* The expected length (checked under SpecCodec).                          *)
(***************************************************************************)
\* a decoder was called on the encoder's payload and service blob with an
\* expected length of at most len(data)
ProbedLength == cpc = "probed" /\ probe.service = enc.val.service

FirstSymbols(r, d, n) == r.ok /\ Len(r.val) <= n /\ r.val = Take(d, n)

\* C19: Huffman decoding stops at the expected length.  For a payload, its
\* valid service blob and an expected length n >= 0 (n = 0 with a non-empty
\* payload included), huffman_decode and huffman_decode_bytes return at most
\* n bytes, and exactly the first n decoded symbols when the bits hold n codes.
C19_StopsAtExpectedLength ==
    ProbedLength => FirstSymbols(dec, data, probe.orig_size)

\* what the decoders do: huffman_decode_bytes always stops, huffman_decode
\* stops for every n >= 1
StopsFromOne ==
    ProbedLength /\ (decoder = "huffman_decode_bytes" \/ probe.orig_size >= 1)
        => FirstSymbols(dec, data, probe.orig_size)

\* huffman_decode with expected length 0 returned bytes
ZeroLengthOverrun ==
    /\ ProbedLength
    /\ decoder = "huffman_decode"
    /\ probe.orig_size = 0
    /\ dec.ok
    /\ dec.val = data
    /\ data # <<>>

(***************************************************************************)
(* The payload blocks and the cursor of the decoders (checked under Spec). *)
(***************************************************************************)
\* the payload block of entry i: stored_size bytes from its offset
Block(buf, parsed, i) ==
    Rd(buf, BlockStart(parsed, i), parsed.entries[i].stored_size)

\* the payload the writer w produces for the bytes raw
WriterBlock(w, raw) ==
    IF w.fn = "build_archive" THEN BuildCodec(raw, w.huffman).val.encoded
    ELSE intelligent_encode_file(raw, w.force, w.crc).val.encoded_data

\* the blocks lie in the order of the table, back to back after the header
BlocksInOrder(buf, parsed) ==
    /\ parsed.pos = HeaderOf(buf).header_size
    /\ Len(parsed.entries) = Len(inputs)
    /\ \A i \in 1..Len(inputs) :
          /\ Len(Block(buf, parsed, i)) = parsed.entries[i].stored_size
          /\ Block(buf, parsed, i) = WriterBlock(writer, inputs[i].data)
    /\ Len(buf) = BlockStart(parsed, Len(inputs) + 1)

\* the decoders that read a table of entries
TableDecoder == Ran \in {"extract_archive", "decode_v1", "decode_v2", "decode_v3"}

\* what the decoder that ran makes of block i
FromBlock(buf, parsed, i) ==
    EntryStep(Ran, HeaderOf(buf), parsed.entries[i], Block(buf, parsed, i))

\* the k-th file written by the run holds what its entry's own block decodes to
WrittenFromOwnBlock(buf, parsed, k) ==
    /\ FromBlock(buf, parsed, run.written[k].entry).ok
    /\ FromBlock(buf, parsed, run.written[k].entry).val.raw = run.written[k].raw

\* the cursor of a finished run: one read of stored_size bytes per entry, in
\* the order of the table, whether the entry was written or not
CursorInOrder(buf, parsed) ==
    /\ parsed.pos = HeaderOf(buf).header_size
    /\ \A k \in 1..Len(run.written) : WrittenFromOwnBlock(buf, parsed, k)
    /\ \A k \in 1..(Len(run.written) - 1) :
          run.written[k].entry < run.written[k + 1].entry
    /\ (run.err = "" =>
           /\ run.done = Len(parsed.entries)
           /\ run.pos = BlockStart(parsed, Len(parsed.entries) + 1)
           /\ run.pos = Len(buf))

\* C20: payload blocks follow the order of the table and are consumed by one
\* forward cursor.  In a written archive block i lies at header_size + the
\* sum of stored_size of the entries before it and has stored_size(i) bytes,
\* and the archive ends after the last block; each decoder reads exactly
\* stored_size(i) bytes for entry i, in the order of the table, for every
\* entry (also those it does not write), so entry i is decoded from block i.
C20_ForwardCursor ==
    /\ (pc = "written" /\ AsWritten =>
           BlocksInOrder(Archive, ParseArchive(Archive).val))
    /\ (pc = "decoded" /\ TableDecoder /\ ParseArchive(Archive).ok =>
           CursorInOrder(Archive, ParseArchive(Archive).val))

\* extract_archive or decode_v3 went over a directory entry with a payload
\* block and wrote the file entry after it
SkippedThenWritten ==
    /\ pc = "decoded"
    /\ retyped = <<1>>
    /\ Ran \in {"extract_archive", "decode_v3"}
    /\ Len(inputs) = 2
    /\ inputs[1].data # <<>>
    /\ run.err = ""
    /\ WrittenEntries = {2}
    /\ run.written[1].raw = inputs[2].data
    /\ run.pos = Len(Archive)

(***************************************************************************)
(* The heap and the tree of build_huffman_tree (checked under SpecCodec).  *)
(***************************************************************************)
\* the heaps build_huffman_tree holds: after heapify and after each pass of
\* the while loop
RECURSIVE HeapTrace(_)
HeapTrace(heap) ==
    IF Len(heap) > 1 THEN <<heap>> \o HeapTrace(MergeTwo(heappop(heap)))
    ELSE <<heap>>

HeapsOf(d) == HeapTrace(heapify(Leaves(Counter(d))))

IsLeaf(n) == n.symbol # NoSym

\* exactly one of two nodes compares less than the other
Ordered(a, b) == Lt(a, b) # Lt(b, a)

TotalOn(heap) ==
    \A i, j \in 1..Len(heap) : i # j => Ordered(heap[i], heap[j])

AllTotal(heaps) == Len(heaps) >= 1 /\ \A k \in 1..Len(heaps) : TotalOn(heaps[k])

\* C21: the node order is a strict total order.  Of any two distinct nodes
\* that are in the heap of build_huffman_tree at the same time (leaves and
\* merged nodes, a leaf for byte 0 included) exactly one compares less than
\* the other under Node.__lt__ / HNode.__lt__.
C21_StrictTotalOrder ==
    cpc = "encoded" => AllTotal(HeapsOf(data))

LeavesTotalOn(heap) ==
    \A i, j \in 1..Len(heap) :
        /\ ~(Lt(heap[i], heap[j]) /\ Lt(heap[j], heap[i]))
        /\ (i # j /\ (heap[i].freq # heap[j].freq
                      \/ (IsLeaf(heap[i]) /\ IsLeaf(heap[j])))
               => Ordered(heap[i], heap[j]))

AllLeavesTotal(heaps) ==
    Len(heaps) >= 1 /\ \A k \in 1..Len(heaps) : LeavesTotalOn(heaps[k])

\* what the order does give: never both ways, and one way whenever the
\* weights differ or both nodes are leaves
OrderedExceptTies ==
    cpc = "encoded" => AllLeavesTotal(HeapsOf(data))

TiedPair(heap) ==
    \E i, j \in 1..Len(heap) :
        /\ i # j
        /\ heap[i].freq = heap[j].freq
        /\ heap[i].symbol = 0 /\ ~IsLeaf(heap[j])
        /\ ~Ordered(heap[i], heap[j])

SomeTied(heaps) == Len(heaps) >= 1 /\ \E k \in 1..Len(heaps) : TiedPair(heaps[k])

\* a leaf for byte 0 and a merged node of the same weight were in the heap
ZeroLeafTied ==
    cpc = "encoded" /\ SomeTied(HeapsOf(data))

\* a node with no child holds a byte, a node with two children holds none,
\* and no node has one child
RECURSIVE StrictBinary(_)
StrictBinary(n) ==
    IF n.left = <<>> /\ n.right = <<>> THEN IsLeaf(n)
    ELSE /\ n.left # <<>>
         /\ n.right # <<>>
         /\ ~IsLeaf(n)
         /\ StrictBinary(n.left[1])
         /\ StrictBinary(n.right[1])

\* the trees of the two builders for the table freqs
BothStrict(tree, ud_tree) ==
    /\ tree.ok
    /\ StrictBinary(tree.val)
    /\ ud_tree # <<>>
    /\ StrictBinary(ud_tree[1])

TreesStrict(freqs) ==
    BothStrict(build_huffman_tree(freqs), ud_build_huffman_tree(freqs))

\* C22: the Huffman tree is a strict binary tree.  For every non-empty
\* frequency table, one with a single symbol included, every node of the
\* tree of build_huffman_tree (either module) has 0 or 2 children, leaves
\* hold a byte value and inner nodes hold none.
C22_StrictBinaryTree ==
    cpc = "encoded" /\ data # <<>> => TreesStrict(Counter(data))

\* what the builders do give: a strict binary tree for two symbols or more
StrictFromTwoSymbols ==
    cpc = "encoded" /\ Len(Counter(data)) >= 2 => TreesStrict(Counter(data))

OneChildRoot(tree) ==
    /\ tree.ok
    /\ tree.val.left # <<>>
    /\ tree.val.right = <<>>

\* the tree of a table with one symbol: a root with a left child only
SingleSymbolTree ==
    /\ cpc = "encoded"
    /\ Len(Counter(data)) = 1
    /\ OneChildRoot(build_huffman_tree(Counter(data)))

(***************************************************************************)
(* The archive during decoding (checked under Spec).                       *)
(***************************************************************************)
\* extract_archive or universal_decode has just run, into any directory
DecoderRan ==
    /\ pc = "written"
    /\ pc' \in {"decoded", "decoded in place"}
    /\ run'.fn \in {"extract_archive", "universal_decode"}

ArchiveKept ==
    /\ ArchivePath \in DOMAIN files'
    /\ files'[ArchivePath] = files[ArchivePath]

\* C23: decoding never changes the source archive.  After any run of
\* extract_archive or universal_decode, successful or failed, for any paths
\* of the entries and any output directory (one that holds the archive
\* included), the archive file has the bytes it had before the run.
C23_ArchiveUnchanged == [][DecoderRan => ArchiveKept]_vars

\* what the decoders do keep: the archive is unchanged by every run into the
\* output directory /w/out, and by a run in place that writes no entry
\* named like the archive
ArchiveKeptUnlessTarget ==
    [][DecoderRan /\ (\A k \in 1..Len(run'.written) :
                         run'.written[k].target # ArchivePath)
          => ArchiveKept]_vars

\* a run in place wrote the entry named like the archive over the archive
\* and went on to the next entry
ArchiveOverwritten ==
    /\ pc = "decoded in place"
    /\ run.err = ""
    /\ Len(inputs) = 2
    /\ WrittenEntries = {1, 2}
    /\ run.written[1].target = ArchivePath
    /\ Archive = inputs[1].data
    /\ Archive # wres.val

(***************************************************************************)
(* The code table (checked under SpecCodec).                               *)
(***************************************************************************)
IsPrefix(a, b) == Len(a) <= Len(b) /\ SubSeq(b, 1, Len(a)) = a

Bytes(d) == {d[i] : i \in 1..Len(d)}

\* the table has a non-empty code for each byte of d and for nothing else,
\* and no code is a prefix of the code of another symbol
PrefixCode(codebook, d) ==
    /\ codebook.ok
    /\ DOMAIN codebook.val = Bytes(d)
    /\ \A s \in Bytes(d) : Len(codebook.val[s]) >= 1
    /\ \A s, t \in Bytes(d) :
          s # t => ~IsPrefix(codebook.val[s], codebook.val[t])

Returns(r) == r.ok

HasCodeLengths(codebook, d, short, long) ==
    /\ codebook.ok
    /\ \E s \in Bytes(d) : Len(codebook.val[s]) = short
    /\ \E s \in Bytes(d) : Len(codebook.val[s]) = long

SameNameFile == [relpath |-> <<101, 47, 98>>, data |-> <<65, 66>>]

CollectLists == SeqsUpTo(InputFiles \cup {SameNameFile}, MaxEntries) \ {<<>>}

\* rel in seen_paths
Seen(entries, rel) == \E i \in 1..Len(entries) : entries[i].relpath = rel

\* collect_entries on files: rel = p.name, kept when not seen before
RECURSIVE CollectFrom(_, _)
CollectFrom(paths, entries) ==
    IF paths = <<>> THEN entries
    ELSE CollectFrom(Tail(paths),
            IF Seen(entries, PathName(Head(paths).relpath)) THEN entries
            ELSE Append(entries, [relpath |-> PathName(Head(paths).relpath),
                                  data |-> Head(paths).data]))

collect_entries(paths) == CollectFrom(paths, <<>>)

InitCollect ==
    /\ CodecIdle
    /\ inputs \in CollectLists
    /\ files = <<>>
    /\ dirs = InitDirs
    /\ writer = NoWriter
    /\ wres = NotRun
    /\ tag = <<>>
    /\ flip = <<>>
    /\ retyped = <<>>
    /\ run = NoRun
    /\ pc = "init"

\* archiver_huffman.main, encode: collect_entries(args.inputs), build_archive
EncodeMain ==
    /\ pc = "init"
    /\ \E h \in BOOLEAN, c \in BOOLEAN :
          Written([fn |-> "main", huffman |-> h, crc |-> c, force |-> ForceNone],
                  build_archive(collect_entries(inputs), h, c))

NextCollect ==
    \/ EncodeMain
    \/ CreateIntelligentArchive
    \/ ExtractArchive
    \/ DecodeV3

SpecCollect == InitCollect /\ [][NextCollect]_vars

UniquePaths(entries) ==
    \A i, j \in 1..Len(entries) : i # j => entries[i].relpath # entries[j].relpath

\* no file of the run was written twice
NoOverwrite ==
    \A k, l \in 1..Len(run.written) :
        k # l => run.written[k].target # run.written[l].target

\* C25: entry paths are unique within an archive.  For any list of inputs
\* (two inputs with the same base name in different directories included)
\* the table written by build_archive after collect_entries and the table
\* written by create_intelligent_archive hold pairwise distinct paths, so no
\* restored file is overwritten by a later entry on decode.
C25_UniquePaths ==
    /\ (pc = "written" => UniquePaths(ParseArchive(Archive).val.entries))
    /\ (pc = "decoded" => NoOverwrite)

\* what the code does give: unique paths after collect_entries, which drops
\* the later input of the same name
CollectedUnique ==
    writer.fn = "main" =>
        /\ (pc = "written" => UniquePaths(ParseArchive(Archive).val.entries))
        /\ (pc = "decoded" => NoOverwrite)

\* decode_v3 wrote two entries of the same name to one file
SameNameOverwritten ==
    /\ pc = "decoded"
    /\ run.fn = "decode_v3"
    /\ writer.fn = "create_intelligent_archive"
    /\ Len(inputs) = 2
    /\ inputs[1].relpath # inputs[2].relpath
    /\ run.err = ""
    /\ Len(run.written) = 2
    /\ run.written[1].target = run.written[2].target
    /\ files[run.written[1].target] = inputs[2].data

=============================================================================
